---- MODULE Spec2Model ----
(***************************************************************************)
(* Model of app/main.py: the fixed-layout document generator.              *)
(*                                                                         *)
(* State: the three directories of the persisted layout (the template     *)
(* slot in data/uploads, data/outputs, data/tmp), the wall clock, and the  *)
(* position of every POST /generate request.  The handlers are coroutines  *)
(* on one event loop: the code between two awaits runs atomically, so a    *)
(* request is suspended only while its body is read (request.json() /      *)
(* request.form()) and while the returned FileResponse is streamed and its *)
(* background task runs.                                                   *)
(***************************************************************************)
EXTENDS Integers, Sequences, FiniteSets, TLC

\* ---------------------------------------------------------------- bounds
NumReqs == 2          \* POST /generate requests in one run
MaxClock == 2         \* last clock tick of a run
TicksPerSecond == 2   \* clock ticks in one second of the timestamp

Reqs == 1..NumReqs

\* ------------------------------------------------------------ file names
BASE_DIR == <<"base">>
UPLOAD_DIR == BASE_DIR \o <<"data", "uploads">>
OUTPUT_DIR == BASE_DIR \o <<"data", "outputs">>
TMP_DIR == BASE_DIR \o <<"data", "tmp">>
TEMPLATE_NAME == "template.docx"

\* A directory is a function from the names of its files to their contents.
EmptyDir == [n \in {} |-> 0]
Exists(dir, name) == name \in DOMAIN dir
WriteFile(dir, name, data) ==
    [n \in DOMAIN dir \cup {name} |-> IF n = name THEN data ELSE dir[n]]
UnlinkNothing(dir, name) == dir
\* path.unlink(missing_ok=True)
Unlink(dir, name) == [n \in DOMAIN dir \ {name} |-> dir[n]]

\* datetime.now().strftime("%Y%m%d%H%M%S"): the clock cut to whole seconds.
Strftime(clock) == clock \div TicksPerSecond
\* f"output_{timestamp}.docx"
OutputName(timestamp) == <<"output_", timestamp, ".docx">>
\* docx_path.with_suffix(".pdf").name
WithSuffix(name, suffix) == <<name[1], name[2], suffix>>
\* docx_path.stem.replace("output_", "")
StemTimestamp(name) == name[2]
\* f"output_{timestamp}.zip"
ZipName(timestamp) == <<"output_", timestamp, ".zip">>

\* ----------------------------------------------------- uploaded file names
\* A file name is a sequence of characters.
LowerChar(c) ==
    CASE c = "A" -> "a" [] c = "D" -> "d" [] c = "O" -> "o"
      [] c = "C" -> "c" [] c = "X" -> "x"
      [] OTHER -> c
Lower(s) == [i \in 1..Len(s) |-> LowerChar(s[i])]
EndsWith(s, suffix) ==
    /\ Len(s) >= Len(suffix)
    /\ SubSeq(s, Len(s) - Len(suffix) + 1, Len(s)) = suffix
DotDocx == <<".", "d", "o", "c", "x">>

Name_a_docx == <<"a", ".", "d", "o", "c", "x">>
Name_A_DOCX == <<"A", ".", "D", "O", "C", "X">>
Name_adocx == <<"a", "d", "o", "c", "x">>
Filenames == {Name_a_docx, Name_A_DOCX, Name_adocx}

\* ------------------------------------------------------- template contents
Keys == {"dept_name", "requester"}
NoText == [k \in {} |-> ""]

\* A well-formed template is known by the placeholders it uses; an uploaded
\* file named *.docx may as well hold bytes that are no document at all.
Template(id, placeholders) ==
    [kind |-> "docx", id |-> id, placeholders |-> placeholders]
Form8 == Template("form8", {"dept_name", "requester"})
Garbage == [kind |-> "bytes", id |-> "-", placeholders |-> {}]
UploadContents == {Form8, Garbage}

\* ------------------------------------------------------------ JSON values
NoMembers == [k \in {} |-> 0]
JNull == [t |-> "null", b |-> FALSE, s |-> "", m |-> NoMembers]
JBool(b) == [t |-> "bool", b |-> b, s |-> "", m |-> NoMembers]
JString(s) == [t |-> "string", b |-> FALSE, s |-> s, m |-> NoMembers]
JArray == [t |-> "array", b |-> FALSE, s |-> "", m |-> NoMembers]
JObject(m) == [t |-> "object", b |-> FALSE, s |-> "", m |-> m]
\* isinstance(v, dict)
IsDict(v) == v.t = "object"
\* bool(v) for a JSON value (an empty array stands for every non-dict root)
Truthy(v) ==
    CASE v.t = "bool" -> v.b
      [] v.t = "string" -> v.s # ""
      [] v.t = "object" -> DOMAIN v.m # {}
      [] OTHER -> FALSE
\* dict.get(key, default)
Get(v, key, default) == IF key \in DOMAIN v.m THEN v.m[key] ELSE default

\* The contexts a client sends: {} and objects over the placeholder names.
Ctx0 == JObject(NoMembers)
Ctx1(x) == JObject([k \in {"dept_name"} |-> JString(x)])
Ctx2(x, y) ==
    JObject([k \in Keys |-> IF k = "dept_name" THEN JString(x) ELSE JString(y)])
Contexts == {Ctx1("X"), Ctx2("X", "Y"), Ctx2("Y", "Y")}

\* A JSON text is either not parseable or denotes one value.
BadText == [syntax |-> "bad", value |-> JNull]
Text(v) == [syntax |-> "json", value |-> v]
\* json.loads(text)
JsonLoads(text) ==
    IF text.syntax = "json"
    THEN [ok |-> TRUE, value |-> text.value]
    ELSE [ok |-> FALSE, value |-> JNull]

\* ---------------------------------------------------------- request input
CT_JSON_UTF8 == <<"application/json", "; charset=utf-8">>
CT_FORM == <<"application/x-www-form-urlencoded">>
ContentTypes == {CT_JSON_UTF8, CT_FORM}
\* "application/json" in content_type
IsJsonType(content_type) ==
    \E i \in 1..Len(content_type) : content_type[i] = "application/json"

\* The values a JSON request body denotes when it parses.
Payload(context, flag) ==
    JObject([k \in {"data", "generate_pdf"} |-> IF k = "data" THEN context ELSE flag])
PayloadNoFlag(context) == JObject([k \in {"data"} |-> context])
Payloads ==
    {JArray, JObject(NoMembers), PayloadNoFlag(JArray)}
      \cup {PayloadNoFlag(c) : c \in Contexts}
      \cup {Payload(c, JBool(TRUE)) : c \in Contexts}
      \cup {Payload(Ctx1("X"), JBool(FALSE)), Payload(Ctx1("X"), JString("no"))}
JsonBodies == {BadText} \cup {Text(v) : v \in Payloads}

\* A submitted form: the field json_data (absent, empty or a text) and the
\* checkbox generate_pdf ("" when the field is absent).
Form(present, empty, text, checkbox) ==
    [present |-> present, empty |-> empty, json_data |-> text,
     generate_pdf |-> checkbox]
Forms ==
    {Form(FALSE, FALSE, BadText, ""), Form(TRUE, TRUE, BadText, ""),
     Form(TRUE, FALSE, BadText, ""), Form(TRUE, FALSE, BadText, "on"),
     Form(TRUE, FALSE, Text(JArray), ""),
     Form(TRUE, FALSE, Text(Ctx1("X")), "true"),
     Form(TRUE, FALSE, Text(Ctx1("X")), "false")}
      \cup {Form(TRUE, FALSE, Text(c), box) : c \in Contexts, box \in {"", "on"}}
\* hasattr(request_data, "get"): starlette's FormData always has it
HasGet(form) == TRUE

\* HTTPException details (the source's messages, transliterated)
ERR_NOT_DOCX == "only .docx templates are accepted"
ERR_JSON_REQUEST == "JSON request format error"
ERR_DATA_NOT_OBJECT == "data field must be a JSON object"
ERR_FORM_PARSE == "form data could not be parsed"
ERR_NO_JSON_DATA == "json_data is missing"
ERR_JSON_PARSE == "JSON parse error"
ERR_ROOT_NOT_OBJECT == "JSON root must be an object"
ERR_NO_TEMPLATE == "template.docx has not been uploaded"
ERR_LOAD_TEMPLATE == "template could not be loaded"
ERR_RENDER == "content generation failed"
ERR_CONVERT == "PDF conversion failed"
ERR_NO_PDF == "PDF file was not produced"
\* an exception no handler catches: the server's plain 500
ERR_UNHANDLED == "Internal Server Error"
MSG_UPDATED == "template updated"

Loaded(context, generate_pdf) ==
    [ok |-> TRUE, status |-> 0, detail |-> "", context |-> context,
     generate_pdf |-> generate_pdf]
Raise(status, detail) ==
    [ok |-> FALSE, status |-> status, detail |-> detail, context |-> Ctx0,
     generate_pdf |-> FALSE]

LoadJson(payload) ==
    IF ~IsDict(payload) THEN Raise(400, ERR_JSON_REQUEST)
    ELSE LET context == Get(payload, "data", JNull)
             generate_pdf == Truthy(Get(payload, "generate_pdf", JBool(FALSE)))
         IN  IF ~IsDict(context) THEN Raise(400, ERR_DATA_NOT_OBJECT)
             ELSE Loaded(context, generate_pdf)

LoadForm(form) ==
    IF ~HasGet(form) THEN Raise(400, ERR_FORM_PARSE)
    ELSE IF ~form.present \/ form.empty THEN Raise(400, ERR_NO_JSON_DATA)
    ELSE LET parsed == JsonLoads(form.json_data)
         IN  IF ~parsed.ok THEN Raise(400, ERR_JSON_PARSE)
             ELSE LET generate_pdf == form.generate_pdf \in {"on", "true"}
                  IN  IF ~IsDict(parsed.value) THEN Raise(400, ERR_ROOT_NOT_OBJECT)
                      ELSE Loaded(parsed.value, generate_pdf)

\* _load_context_from_request(content_type, request_data)
LoadContext(content_type, request_data) ==
    IF IsJsonType(content_type) THEN LoadJson(request_data)
    ELSE LoadForm(request_data)

\* ------------------------------------------------------------- file contents
NoEntries == <<>>
NoFile == [kind |-> "none", tpl |-> "-", text |-> NoText, entries |-> NoEntries]
Document(tpl, text) ==
    [kind |-> "docx", tpl |-> tpl, text |-> text, entries |-> NoEntries]
\* what soffice --convert-to pdf makes of a document
Convert(document) == [document EXCEPT !.kind = "pdf"]
\* zipfile.ZipFile(...).write(path, arcname=name), twice
Zip(name1, data1, name2, data2) ==
    [kind |-> "zip", tpl |-> "-", text |-> NoText,
     entries |-> << <<name1, data1.kind, data1.tpl, data1.text>>,
                    <<name2, data2.kind, data2.tpl, data2.text>> >>]

\* Strict-undefined rendering: every placeholder of the template must be a
\* key of the context.
CanRenderLenient(template, context) == template.kind = "docx"
CanRender(template, context) ==
    /\ template.kind = "docx"
    /\ template.placeholders \subseteq DOMAIN context.m
Rendered(template, context) ==
    Document(template.id,
             [k \in template.placeholders |-> Get(context, k, JString("")).s])

NoTemplate == [kind |-> "none", id |-> "-", placeholders |-> {}]

\* --------------------------------------------------------------------- state
VARIABLES
    template,   \* content of UPLOAD_DIR / TEMPLATE_NAME, NoTemplate when absent
    outputs,    \* OUTPUT_DIR: file name -> content
    tmp,        \* TMP_DIR: file name -> content
    now,        \* the wall clock, in ticks
    upload,     \* the last response of POST /upload-template
    req         \* the POST /generate requests

vars == <<template, outputs, tmp, now, upload, req>>

NoName == <<"", 0, "">>
NoPath == [dir |-> "", name |-> NoName]
IdleReq ==
    [pc |-> "idle", content_type |-> <<>>, malformed |-> FALSE,
     loaded |-> FALSE, context |-> Ctx0, generate_pdf |-> FALSE,
     template |-> NoTemplate, status |-> 0, detail |-> "",
     docx |-> NoName, converter |-> "", path |-> NoPath, cleanup |-> FALSE,
     stat |-> NoFile, sent |-> NoFile, disconnected |-> FALSE]
NoUpload == [status |-> 0, message |-> "", path |-> <<>>]

Init ==
    /\ template = NoTemplate
    /\ outputs = EmptyDir
    /\ tmp = EmptyDir
    /\ now = 0
    /\ upload = NoUpload
    /\ req = [r \in Reqs |-> IdleReq]

TemplateExistsAlways == TRUE
TemplateExistsNever == FALSE
\* template_path.exists()
TemplateExists == template.kind # "none"

\* The directory a response path points into.
Dir(name) == IF name = "tmp" THEN tmp ELSE outputs

\* ----------------------------------------------------- POST /upload-template
AcceptsNameCaseSensitive(filename) == EndsWith(filename, DotDocx)
\* file.filename.lower().endswith(".docx")
AcceptsName(filename) == EndsWith(Lower(filename), DotDocx)

UploadTemplate(filename, content) ==
    /\ IF ~AcceptsName(filename)
       THEN /\ upload' = [status |-> 400, message |-> ERR_NOT_DOCX,
                          path |-> <<>>]
            /\ UNCHANGED template
       ELSE /\ template' = content
            /\ upload' = [status |-> 200, message |-> MSG_UPDATED,
                          path |-> UPLOAD_DIR \o <<TEMPLATE_NAME>>]
    /\ UNCHANGED <<outputs, tmp, now, req>>

\* ------------------------------------------------------------ POST /generate
\* A request is suspended once before its handler's work: while its body is
\* read (await request.json() / await request.form()).  Nothing is read or
\* written before that await but the content-type header, so the handler is one
\* step, taken when the body is complete.  Requests are numbered in the order
\* in which their handlers run.
Ready(r) ==
    /\ req[r].pc = "idle"
    /\ IF r = 1 THEN TRUE ELSE req[r - 1].pc # "idle"

\* The handler ends with an error response: nothing is streamed.
Failed(rec, status, detail) ==
    [rec EXCEPT !.pc = "done", !.status = status, !.detail = detail]
\* The handler returns FileResponse(path=..., background=...).
Returned(rec, dir, name, cleanup) ==
    [rec EXCEPT !.pc = "respond", !.status = 200,
                !.path = [dir |-> dir, name |-> name], !.cleanup = cleanup]

\* The answer of a step of the handler: a file written into dir, or an
\* HTTPException.
Done(name, dir) ==
    [ok |-> TRUE, status |-> 0, detail |-> "", name |-> name, dir |-> dir]
Error(status, detail, dir) ==
    [ok |-> FALSE, status |-> status, detail |-> detail, name |-> NoName,
     dir |-> dir]

\* _render_docx(context): the answers it can give.  A stored file that is no
\* document fails where the library opens it: in the constructor (500) or in
\* render (400), depending on the library's release.
RenderDocx(context) ==
    IF ~TemplateExists THEN {Error(400, ERR_NO_TEMPLATE, outputs)}
    ELSE IF template.kind # "docx"
    THEN {Error(500, ERR_LOAD_TEMPLATE, outputs), Error(400, ERR_RENDER, outputs)}
    ELSE IF ~CanRender(template, context) THEN {Error(400, ERR_RENDER, outputs)}
    ELSE LET output_name == OutputName(Strftime(now))
         IN  {Done(output_name,
                   WriteFile(outputs, output_name, Rendered(template, context)))}

\* What the converter process does: "ok" writes the pdf and exits 0, "nonzero"
\* exits with an error, "no_output" exits 0 and writes nothing.
ConverterOutcomes == {"ok", "nonzero", "no_output"}

ConvertToPdfIgnoresExit(dir, docx_name, conv) ==
    LET pdf_name == <<docx_name[1], docx_name[2], ".pdf">>
        after == IF conv = "ok"
                 THEN [n \in DOMAIN dir \cup {pdf_name} |->
                         IF n = pdf_name THEN [dir[docx_name] EXCEPT !.kind = "pdf"]
                         ELSE dir[n]]
                 ELSE dir
    IN  IF pdf_name \notin DOMAIN after
        THEN [ok |-> FALSE, status |-> 500, detail |-> "PDF file was not produced",
              name |-> <<"", 0, "">>, dir |-> after]
        ELSE [ok |-> TRUE, status |-> 0, detail |-> "", name |-> pdf_name,
              dir |-> after]
\* _convert_to_pdf(docx_path), the output directory being dir
ConvertToPdf(dir, docx_name, conv) ==
    LET pdf_name == WithSuffix(docx_name, ".pdf")
        after == IF conv = "ok"
                 THEN WriteFile(dir, pdf_name, Convert(dir[docx_name]))
                 ELSE dir
    IN  IF conv = "nonzero" THEN Error(500, ERR_CONVERT, after)
        ELSE IF ~Exists(after, pdf_name) THEN Error(500, ERR_NO_PDF, after)
        ELSE Done(pdf_name, after)

\* generate, from _render_docx on: render, convert, package, return.
\* conv is what the converter does if it is run.
RenderAndRespond(r, rec0, conv) ==
    \E docx \in RenderDocx(rec0.context) :
        LET rec == [rec0 EXCEPT !.template = template, !.docx = docx.name]
        IN  IF ~docx.ok
            THEN /\ req' = [req EXCEPT ![r] = Failed(rec, docx.status, docx.detail)]
                 /\ UNCHANGED <<outputs, tmp>>
            ELSE IF ~rec.generate_pdf
            THEN /\ req' = [req EXCEPT ![r] =
                              Returned(rec, "outputs", docx.name, FALSE)]
                 /\ outputs' = docx.dir
                 /\ UNCHANGED tmp
            ELSE LET pdf == ConvertToPdf(docx.dir, docx.name, conv)
                     rec2 == [rec EXCEPT !.converter = conv]
                     zip_name == ZipName(StemTimestamp(docx.name))
                 IN  IF ~pdf.ok
                     THEN /\ req' = [req EXCEPT ![r] =
                                       Failed(rec2, pdf.status, pdf.detail)]
                          /\ outputs' = pdf.dir
                          /\ UNCHANGED tmp
                     ELSE /\ req' = [req EXCEPT ![r] =
                                       Returned(rec2, "tmp", zip_name, TRUE)]
                          /\ outputs' = pdf.dir
                          /\ tmp' = WriteFile(tmp, zip_name,
                                              Zip(docx.name, pdf.dir[docx.name],
                                                  pdf.name, pdf.dir[pdf.name]))

\* generate, after the body was read: load the context, then render.
Handle(r, rec0, malformed, load, conv) ==
    LET rec == [rec0 EXCEPT !.malformed = malformed, !.loaded = load.ok,
                              !.context = load.context,
                              !.generate_pdf = load.generate_pdf]
    IN  IF ~load.ok
        THEN /\ req' = [req EXCEPT ![r] = Failed(rec, load.status, load.detail)]
             /\ UNCHANGED <<outputs, tmp>>
        ELSE RenderAndRespond(r, rec, conv)

\* await request.json(): json.loads of the body, whose JSONDecodeError nothing
\* catches.
GenerateJson(r, content_type, text, conv) ==
    /\ Ready(r)
    /\ IsJsonType(content_type)
    /\ LET payload == JsonLoads(text)
           rec == [req[r] EXCEPT !.content_type = content_type]
       IN  IF ~payload.ok
           THEN /\ req' = [req EXCEPT ![r] =
                             Failed([rec EXCEPT !.malformed = TRUE],
                                    500, ERR_UNHANDLED)]
                /\ UNCHANGED <<outputs, tmp>>
           ELSE Handle(r, rec, FALSE,
                       LoadContext(content_type, payload.value), conv)
    /\ UNCHANGED <<template, now, upload>>

\* await request.form()
GenerateForm(r, content_type, form, conv) ==
    /\ Ready(r)
    /\ ~IsJsonType(content_type)
    /\ Handle(r, [req[r] EXCEPT !.content_type = content_type],
              form.present /\ ~form.empty /\ ~JsonLoads(form.json_data).ok,
              LoadContext(content_type, form), conv)
    /\ UNCHANGED <<template, now, upload>>

\* content_type = request.headers.get("content-type", "")
Generate(r, content_type) ==
    \/ \E text \in JsonBodies, conv \in ConverterOutcomes :
           GenerateJson(r, content_type, text, conv)
    \/ \E form \in Forms, conv \in ConverterOutcomes :
           GenerateForm(r, content_type, form, conv)

\* ----------------------------------------------- FileResponse and its task
ERR_NO_FILE == "file at path does not exist"
ERR_ABORTED == "response aborted"

\* FileResponse.__call__ begins: os.stat(path) for the headers.  A missing file
\* raises before anything is sent, and the background task is never run.
StartResponse(r) ==
    /\ req[r].pc = "respond"
    /\ LET dir == Dir(req[r].path.dir)
           name == req[r].path.name
       IN  IF Exists(dir, name)
           THEN req' = [req EXCEPT ![r] = [@ EXCEPT !.pc = "streaming",
                                                   !.stat = dir[name]]]
           ELSE req' = [req EXCEPT ![r] = Failed(@, 500, ERR_NO_FILE)]
    /\ UNCHANGED <<template, outputs, tmp, now, upload>>

\* The file is opened and sent; the stat result is dropped with the call.
\*   "breaks": the file was removed since the stat, or replaced by a file of
\*     another length than the Content-Length announced; the response breaks
\*     off and the background task is never run.
\*   "disconnect": the client goes away while the file is streamed; the server
\*     drops what is sent from then on and the coroutine runs to its end.
\*   "complete": the client receives the file as it is on disk now.
SendOutcomes == {"complete", "disconnect", "breaks"}
SendBody(r, outcome) ==
    /\ req[r].pc = "streaming"
    /\ LET dir == Dir(req[r].path.dir)
           name == req[r].path.name
           after == IF req[r].cleanup THEN "background" ELSE "done"
       IN  IF ~Exists(dir, name)
           THEN req' = [req EXCEPT ![r] =
                          Failed([@ EXCEPT !.stat = NoFile], 200, ERR_ABORTED)]
           ELSE IF outcome = "breaks"
           THEN /\ dir[name] # req[r].stat
                /\ req' = [req EXCEPT ![r] =
                             Failed([@ EXCEPT !.stat = NoFile], 200, ERR_ABORTED)]
           ELSE IF outcome = "disconnect"
           THEN req' = [req EXCEPT ![r] =
                          [@ EXCEPT !.pc = after, !.stat = NoFile,
                                    !.disconnected = TRUE]]
           ELSE req' = [req EXCEPT ![r] =
                          [@ EXCEPT !.pc = after, !.stat = NoFile,
                                    !.sent = dir[name]]]
    /\ UNCHANGED <<template, outputs, tmp, now, upload>>

\* BackgroundTask(lambda: zip_path.unlink(missing_ok=True))
Cleanup(r) ==
    /\ req[r].pc = "background"
    /\ tmp' = Unlink(tmp, req[r].path.name)
    /\ req' = [req EXCEPT ![r] = [@ EXCEPT !.pc = "done"]]
    /\ UNCHANGED <<template, outputs, now, upload>>

\* --------------------------------------------------------------------- clock
Tick ==
    /\ now < MaxClock
    /\ now' = now + 1
    /\ UNCHANGED <<template, outputs, tmp, upload, req>>

Next ==
    \/ \E filename \in Filenames, content \in UploadContents :
           UploadTemplate(filename, content)
    \/ \E r \in Reqs, content_type \in ContentTypes : Generate(r, content_type)
    \/ \E r \in Reqs : StartResponse(r)
    \/ \E r \in Reqs, outcome \in SendOutcomes : SendBody(r, outcome)
    \/ \E r \in Reqs : Cleanup(r)
    \/ Tick

Spec == Init /\ [][Next]_vars

\* The event loop runs every coroutine that can run: a response that was
\* returned is streamed, and its background task is run.
Respond(r) == StartResponse(r) \/ (\E outcome \in SendOutcomes : SendBody(r, outcome)) \/ Cleanup(r)
FairSpec == Spec /\ \A r \in Reqs : WF_vars(Respond(r))

\* ===================================================================== claims
\* The step in which request r's handler runs.
Handled(r) == req[r].pc = "idle" /\ req'[r].pc # "idle"
\* Nothing is written into the output or the scratch directory.
WritesNothing == outputs' = outputs /\ tmp' = tmp
\* The document and the archive a request builds from its own context.
Own(rec) == Rendered(rec.template, rec.context)
OwnZip(rec) ==
    Zip(rec.docx, Own(rec), WithSuffix(rec.docx, ".pdf"), Convert(Own(rec)))
\* The context of rec supplies every placeholder of template tpl.
Supplies(rec, tpl) == \A k \in tpl.placeholders : k \in DOMAIN rec.context.m

\* C1 as stated: every POST /generate handled while no template is stored fails
\* with the template-missing error (400), whatever its content type, body and
\* flag, and writes nothing.
C1_AlwaysTemplateMissing ==
    [][\A r \in Reqs :
         (Handled(r) /\ template.kind = "none")
           => /\ req'[r].status = 400
              /\ req'[r].detail = ERR_NO_TEMPLATE
              /\ WritesNothing]_vars

\* C1 amended: a POST /generate handled while no template is stored always
\* fails and writes no artifact and no archive; it fails with the
\* template-missing error (400) exactly when its context loads, whatever the
\* content type and the flag, and with the loader's own error otherwise.
C1_TemplateMissing ==
    [][\A r \in Reqs :
         (Handled(r) /\ template.kind = "none")
           => /\ req'[r].pc = "done"
              /\ req'[r].status \in {400, 500}
              /\ req'[r].loaded <=>
                   (req'[r].status = 400 /\ req'[r].detail = ERR_NO_TEMPLATE)
              /\ WritesNothing]_vars

\* C1 witness: a request asking for a PDF was refused for the missing template.
C1_Witness ==
    \E r \in Reqs :
        /\ req[r].detail = ERR_NO_TEMPLATE
        /\ req[r].generate_pdf
        /\ outputs = EmptyDir

\* C2: a body or a json_data field that is not parseable JSON is answered with
\* HTTP 400 naming the parse failure, on the JSON path and on the form path.
C2_MalformedIs400 ==
    \A r \in Reqs :
        req[r].malformed => req[r].status = 400 /\ req[r].detail = ERR_JSON_PARSE

\* The file names of the model that end in .docx, whatever the case.
DocxNamed == {Name_a_docx, Name_A_DOCX}

\* C5: an upload whose name does not end in .docx is answered 400 and leaves
\* the stored template as it was; an upload whose name does overwrites the one
\* stored template with the uploaded content and answers with the message and
\* the fixed path.
C5_Upload ==
    [][\A filename \in Filenames, content \in UploadContents :
         UploadTemplate(filename, content)
           => IF filename \in DocxNamed
              THEN /\ template' = content
                   /\ upload'.status = 200
                   /\ upload'.message = MSG_UPDATED
                   /\ upload'.path = <<"base", "data", "uploads", "template.docx">>
              ELSE /\ template' = template
                   /\ upload'.status = 400]_vars

\* C5 witness: an upload was refused while a template was stored, which is
\* still there.
C5_Witness == upload.status = 400 /\ template = Form8

\* C7: with a template stored and a context that lacks a placeholder of it, the
\* request fails in the render step with 400; no artifact is written, the
\* converter is not run and no archive is created.
C7_MissingPlaceholder ==
    [][\A r \in Reqs :
         (/\ Handled(r)
          /\ template.kind # "none"
          /\ req'[r].loaded
          /\ \E k \in template.placeholders : k \notin DOMAIN req'[r].context.m)
           => /\ req'[r].pc = "done"
              /\ req'[r].status = 400
              /\ req'[r].detail = ERR_RENDER
              /\ req'[r].converter = ""
              /\ WritesNothing]_vars

\* C7 witness: a request asking for a PDF failed in the render step against the
\* stored document template.
C7_Witness ==
    \E r \in Reqs :
        /\ req[r].detail = ERR_RENDER
        /\ req[r].template = Form8
        /\ req[r].generate_pdf
        /\ ~Supplies(req[r], Form8)

\* C8: when the converter exits non-zero, or exits zero with the expected pdf
\* missing, the request fails with 500, no archive is created and the docx it
\* rendered is on disk.
C8_ConverterFailure ==
    [][\A r \in Reqs :
         (/\ Handled(r)
          /\ \/ req'[r].converter = "nonzero"
             \/ /\ req'[r].converter = "no_output"
                /\ ~Exists(outputs', WithSuffix(req'[r].docx, ".pdf")))
           => /\ req'[r].pc = "done"
              /\ req'[r].status = 500
              /\ req'[r].detail \in {ERR_CONVERT, ERR_NO_PDF}
              /\ tmp' = tmp
              /\ Exists(outputs', req'[r].docx)
              /\ outputs'[req'[r].docx] = Own(req'[r])]_vars

\* C8 witness: one request failed on the converter's exit status and another on
\* the missing pdf; the docx of the latter is on disk.
C8_Witness ==
    \E r, q \in Reqs :
        /\ req[r].detail = ERR_CONVERT
        /\ req[q].detail = ERR_NO_PDF
        /\ Exists(outputs, req[q].docx)
        /\ tmp = EmptyDir

Timestamps == 0..Strftime(MaxClock)

C4_ResponseContent ==
    \A r \in Reqs :
        (req[r].pc = "done" /\ req[r].status = 200 /\ req[r].sent # NoFile)
          => IF req[r].generate_pdf
             THEN /\ req[r].sent.kind = "zip"
                  /\ Len(req[r].sent.entries) = 2
                  /\ req[r].sent.entries = OwnZip(req[r]).entries
             ELSE /\ req[r].sent = Own(req[r])
                  /\ ~req[r].cleanup

\* C6: a render writes its artifact under a name no file of the output
\* directory has yet, and no step changes or removes a file of the output
\* directory.
C6_UniqueAppendOnly ==
    [][/\ \A r \in Reqs :
            (Handled(r) /\ req'[r].docx # NoName) => ~Exists(outputs, req'[r].docx)
       /\ \A n \in DOMAIN outputs :
            Exists(outputs', n) /\ outputs'[n] = outputs[n]]_vars

\* C10: whatever the interleaving, the file a client receives is the one built
\* from its own request, and a background task never deletes an archive that
\* another request has still to stream.
C10_NoInterference ==
    [][/\ \A r \in Reqs :
            (req[r].pc = "streaming" /\ req'[r].sent # NoFile)
              => req'[r].sent = IF req[r].generate_pdf THEN OwnZip(req[r])
                                ELSE Own(req[r])
       /\ \A r, q \in Reqs :
            (/\ r # q
             /\ req[r].pc = "background" /\ req'[r].pc = "done"
             /\ req[q].pc \in {"respond", "streaming"})
              => req[q].path # req[r].path]_vars
====
